---- MODULE Spec2Model ----
(***************************************************************************)
(* Model of the heartbeat monitor of krishnaak114/Kairos                   *)
(* (src/app/monitor.py, src/app/models.py).                                *)
(*                                                                         *)
(* Time is counted in whole seconds from an arbitrary epoch.  A parsed     *)
(* datetime is a record [utc, aware]: for a timezone-aware value utc is    *)
(* the absolute instant (Python compares aware datetimes by instant), for  *)
(* a naive value it is the wall-clock reading.  A service name is a        *)
(* sequence of one-character strings, so that strip(), lower() and the     *)
(* identifier pattern are computed character by character.                 *)
(* monitoring_duration_ms and MonitorResult.timestamp are wall-clock       *)
(* readings of the host and are left out of the result.                    *)
(***************************************************************************)
EXTENDS Integers, Sequences, FiniteSets, TLC

(* ---------------------------- bounds ----------------------------------- *)
MaxTime == 5
MaxEvents == 3
MaxInterval == 2
MaxMisses == 2
MaxTolerance == 1
MaxRecords == 2
MaxPairedEvents == 4
MaxCalls == 3
MaxCallEvents == 2
MaxStepEvents == 2

(* ------------------------- raw input values ---------------------------- *)
\* A raw record is a function whose DOMAIN is a subset of
\* {"service", "timestamp"}: a key of the dict is present iff it is in DOMAIN.
\* Raw values are tagged records with the same fields throughout.
Str(chars) ==
    [kind |-> "str", chars |-> chars, local |-> 0, hasOffset |-> FALSE, offset |-> 0]
None ==
    [kind |-> "none", chars |-> <<>>, local |-> 0, hasOffset |-> FALSE, offset |-> 0]
IntVal(n) ==
    [kind |-> "int", chars |-> <<>>, local |-> n, hasOffset |-> FALSE, offset |-> 0]
\* an ISO-8601 string reading wall-clock second `local`, with a UTC offset
\* of `offset` seconds ("Z" is offset 0)
IsoZ(local, offset) ==
    [kind |-> "iso", chars |-> <<"i">>, local |-> local, hasOffset |-> TRUE, offset |-> offset]
\* an ISO-8601 string without any offset
IsoNaive(local) ==
    [kind |-> "iso", chars |-> <<"i">>, local |-> local, hasOffset |-> FALSE, offset |-> 0]

RawEvent(sv, tv) ==
    [k \in {"service", "timestamp"} |-> IF k = "service" THEN sv ELSE tv]

(* ------------------------- str methods --------------------------------- *)
Whitespace == {" "}
UpperToLower ==
    [c \in {"A", "B"} |-> IF c = "A" THEN "a" ELSE "b"]
IdentifierChars == {"a", "b", "A", "B", "0", "_", "-"}

RECURSIVE lstrip(_)
lstrip(s) ==
    IF s # <<>> /\ Head(s) \in Whitespace THEN lstrip(Tail(s)) ELSE s

RECURSIVE rstrip(_)
rstrip(s) ==
    IF s # <<>> /\ s[Len(s)] \in Whitespace
    THEN rstrip(SubSeq(s, 1, Len(s) - 1))
    ELSE s

strip(s) == rstrip(lstrip(s))

lower(s) ==
    [i \in 1..Len(s) |-> IF s[i] \in DOMAIN UpperToLower THEN UpperToLower[s[i]] ELSE s[i]]

(* ------------------------- HeartbeatEvent ------------------------------ *)
\* Python truthiness of a raw value
Truthy(v) ==
    CASE v.kind = "none" -> FALSE
      [] v.kind = "int" -> v.local # 0
      [] v.kind = "str" -> v.chars # <<>>
      [] OTHER -> TRUE

Err(loc, type, msg) == [loc |-> loc, type |-> type, msg |-> msg]

\* variant: the name is trimmed but keeps its case
validate_service_KeepCase(v) ==
    IF ~Truthy(v)
    THEN [raised |-> "ValueError", value |-> <<>>]
    ELSE IF v.kind # "str"
    THEN [raised |-> "AttributeError", value |-> <<>>]
    ELSE IF strip(v.chars) = <<>>
    THEN [raised |-> "ValueError", value |-> <<>>]
    ELSE [raised |-> "", value |-> strip(v.chars)]

\* the 'before' validator of the service field: [raised, value]
\* raised is "" (returned normally), "ValueError" or "AttributeError"
validate_service(v) ==
    IF ~Truthy(v)
    THEN [raised |-> "ValueError", value |-> <<>>]
    ELSE IF v.kind # "str"
    THEN [raised |-> "AttributeError", value |-> <<>>]
    ELSE IF strip(v.chars) = <<>>
    THEN [raised |-> "ValueError", value |-> <<>>]
    ELSE [raised |-> "", value |-> lower(strip(v.chars))]

MinLength == 1
MaxLength == 100

\* errors of the service field, in the order pydantic reports them
ServiceErrors(raw_event) ==
    IF "service" \notin DOMAIN raw_event
    THEN <<Err("service", "missing", "Field required")>>
    ELSE LET r == validate_service(raw_event["service"]) IN
         IF r.raised = "ValueError"
         THEN <<Err("service", "value_error", "Value error, Service name cannot be empty")>>
         ELSE IF r.raised = "AttributeError"
         THEN <<>>
         ELSE IF Len(r.value) < MinLength
         THEN <<Err("service", "string_too_short", "String should have at least 1 character")>>
         ELSE IF Len(r.value) > MaxLength
         THEN <<Err("service", "string_too_long", "String should have at most 100 characters")>>
         ELSE IF \E i \in 1..Len(r.value) : r.value[i] \notin IdentifierChars
         THEN <<Err("service", "string_pattern_mismatch", "String should match pattern")>>
         ELSE <<>>

\* the datetime a raw timestamp value parses to
Datetime(utc, aware) == [utc |-> utc, aware |-> aware]

ParseTimestamp(v) ==
    CASE v.kind = "iso" /\ v.hasOffset -> Datetime(v.local - v.offset, TRUE)
      [] v.kind = "iso" /\ ~v.hasOffset -> Datetime(v.local, FALSE)
      [] v.kind = "int" -> Datetime(v.local, TRUE)
      [] OTHER -> Datetime(0, FALSE)

TimestampErrors(raw_event) ==
    IF "timestamp" \notin DOMAIN raw_event
    THEN <<Err("timestamp", "missing", "Field required")>>
    ELSE LET v == raw_event["timestamp"] IN
         CASE v.kind = "none" ->
                <<Err("timestamp", "datetime_type", "Input should be a valid datetime")>>
           [] v.kind = "str" ->
                <<Err("timestamp", "datetime_from_date_parsing",
                      "Input should be a valid datetime or date")>>
           [] OTHER -> <<>>

\* HeartbeatEvent(**raw_event): [raised, errors, event]
\* raised is "" (constructed), "ValidationError" or another exception name
\* a raw record is a mapping; any other value is one of the tagged values
IsMapping(raw_event) == "kind" \notin DOMAIN raw_event

\* HeartbeatEvent(**raw_event); unpacking a value that is no mapping raises
\* TypeError before the model is built
HeartbeatEvent(raw_event) ==
    LET sv == IF "service" \in DOMAIN raw_event
              THEN validate_service(raw_event["service"])
              ELSE [raised |-> "", value |-> <<>>]
        errs == ServiceErrors(raw_event) \o TimestampErrors(raw_event)
    IN  IF ~IsMapping(raw_event)
        THEN [raised |-> "TypeError", errors |-> <<>>,
              event |-> [service |-> <<>>, timestamp |-> Datetime(0, FALSE)]]
        ELSE IF sv.raised = "AttributeError"
        THEN [raised |-> "AttributeError", errors |-> <<>>,
              event |-> [service |-> <<>>, timestamp |-> Datetime(0, FALSE)]]
        ELSE IF errs # <<>>
        THEN [raised |-> "ValidationError", errors |-> errs,
              event |-> [service |-> <<>>, timestamp |-> Datetime(0, FALSE)]]
        ELSE [raised |-> "", errors |-> <<>>,
              event |-> [service |-> sv.value,
                         timestamp |-> ParseTimestamp(raw_event["timestamp"])]]

(* ------------------------- HeartbeatMonitor ---------------------------- *)
\* HeartbeatMonitor.__init__: the fields of a monitor built from a config
HeartbeatMonitor(cfg) ==
    [config |-> cfg,
     interval |-> cfg.expected_interval_seconds,
     tolerance |-> cfg.tolerance_seconds]

_categorize_validation_error(errors, raw_event) ==
    LET error_details == errors[1]
        field == error_details.loc
        error_type == error_details.type
    IN  IF "service" \notin DOMAIN raw_event THEN "missing_service"
        ELSE IF "timestamp" \notin DOMAIN raw_event THEN "missing_timestamp"
        ELSE IF raw_event["service"] \in {None, Str(<<>>)} THEN "empty_service"
        ELSE IF raw_event["timestamp"] \in {None, Str(<<>>)} THEN "empty_timestamp"
        ELSE IF field = "timestamp"
                \/ error_type \in {"datetime_type", "datetime_from_date_parsing"}
        THEN "invalid_timestamp_format"
        ELSE IF field = "service" THEN "invalid_service_format"
        ELSE "validation_error"

\* variant: the count of a reason is set to one instead of raised by one
Bump_Overwrite(skipped_reasons, reason) ==
    [r \in DOMAIN skipped_reasons \cup {reason} |->
        IF r = reason THEN 1 ELSE skipped_reasons[r]]

\* one pass of the for loop of _validate_events over raw_events[idx..]
\* acc = [valid_events, errors, skipped_reasons]; idx is 1-based here and
\* the message carries the 0-based index of enumerate()
Bump(skipped_reasons, reason) ==
    IF reason \in DOMAIN skipped_reasons
    THEN [skipped_reasons EXCEPT ![reason] = @ + 1]
    ELSE [r \in DOMAIN skipped_reasons \cup {reason} |->
            IF r = reason THEN 1 ELSE skipped_reasons[r]]

\* variant: a rejected record also discards the events accepted before it
ValidateOne_AbortOnError(acc, idx, raw_event) ==
    LET r == HeartbeatEvent(raw_event) IN
    IF r.raised = ""
    THEN [acc EXCEPT !.valid_events = Append(@, r.event)]
    ELSE IF r.raised = "ValidationError"
    THEN LET reason == _categorize_validation_error(r.errors, raw_event) IN
         [acc EXCEPT !.valid_events = <<>>,
                     !.skipped_reasons = Bump(@, reason),
                     !.errors = Append(@, [idx |-> idx - 1, reason |-> reason,
                                           msg |-> r.errors[1].msg])]
    ELSE [acc EXCEPT !.valid_events = <<>>,
                     !.skipped_reasons = Bump(@, "unexpected_error"),
                     !.errors = Append(@, [idx |-> idx - 1,
                                           reason |-> "Unexpected error",
                                           msg |-> r.raised])]

\* variant: the message carries the rank among the rejected records
ValidateOne_IndexAmongRejected(acc, idx, raw_event) ==
    LET r == HeartbeatEvent(raw_event) IN
    IF r.raised = ""
    THEN [acc EXCEPT !.valid_events = Append(@, r.event)]
    ELSE IF r.raised = "ValidationError"
    THEN LET reason == _categorize_validation_error(r.errors, raw_event) IN
         [acc EXCEPT !.skipped_reasons = Bump(@, reason),
                     !.errors = Append(@, [idx |-> Len(acc.errors), reason |-> reason,
                                           msg |-> r.errors[1].msg])]
    ELSE [acc EXCEPT !.skipped_reasons = Bump(@, "unexpected_error"),
                     !.errors = Append(@, [idx |-> Len(acc.errors),
                                           reason |-> "Unexpected error",
                                           msg |-> r.raised])]

ValidateOne(acc, idx, raw_event) ==
    LET r == HeartbeatEvent(raw_event) IN
    IF r.raised = ""
    THEN [acc EXCEPT !.valid_events = Append(@, r.event)]
    ELSE IF r.raised = "ValidationError"
    THEN LET reason == _categorize_validation_error(r.errors, raw_event) IN
         [acc EXCEPT !.skipped_reasons = Bump(@, reason),
                     !.errors = Append(@, [idx |-> idx - 1, reason |-> reason,
                                           msg |-> r.errors[1].msg])]
    ELSE [acc EXCEPT !.skipped_reasons = Bump(@, "unexpected_error"),
                     !.errors = Append(@, [idx |-> idx - 1, reason |-> "Unexpected error",
                                           msg |-> r.raised])]

RECURSIVE ValidateLoop(_, _, _)
ValidateLoop(acc, idx, raw_events) ==
    IF idx > Len(raw_events) THEN acc
    ELSE ValidateLoop(ValidateOne(acc, idx, raw_events[idx]), idx + 1, raw_events)

NoReasons == [r \in {} |-> 0]

_validate_events(raw_events) ==
    LET acc == ValidateLoop([valid_events |-> <<>>, errors |-> <<>>,
                             skipped_reasons |-> NoReasons], 1, raw_events)
    IN  [valid_events |-> acc.valid_events,
         validation_result |->
            [total_events |-> Len(raw_events),
             valid_events |-> Len(acc.valid_events),
             invalid_events |-> Len(raw_events) - Len(acc.valid_events),
             errors |-> acc.errors,
             skipped_reasons |-> acc.skipped_reasons]]

\* _group_by_service: a dict keeps its keys in insertion order, so the map is
\* [keys: the service names in first-seen order, events: name -> its events]
RECURSIVE GroupLoop(_, _)
GroupLoop(services, events) ==
    IF events = <<>> THEN services
    ELSE LET event == Head(events)
             s == event.service
             next == IF s \in DOMAIN services.events
                     THEN [services EXCEPT !.events[s] = Append(@, event)]
                     ELSE [keys |-> Append(services.keys, s),
                           events |-> [k \in DOMAIN services.events \cup {s} |->
                                         IF k = s THEN <<event>> ELSE services.events[k]]]
         IN  GroupLoop(next, Tail(events))

\* variant: the keys are kept newest first
_group_by_service_NewestFirst(events) ==
    LET m == GroupLoop([keys |-> <<>>, events |-> [k \in {} |-> <<>>]], events)
    IN  [keys |-> [i \in 1..Len(m.keys) |-> m.keys[Len(m.keys) + 1 - i]],
         events |-> m.events]

_group_by_service(events) ==
    GroupLoop([keys |-> <<>>, events |-> [k \in {} |-> <<>>]], events)

(* ------------------------- datetime arithmetic ------------------------- *)
\* datetime + timedelta keeps the tzinfo of the datetime
PlusSeconds(dt, n) == [dt EXCEPT !.utc = @ + n]

\* dt1 < dt2 for two datetimes of the same awareness
Before(dt1, dt2) == dt1.utc < dt2.utc

\* comparing a naive with an aware datetime raises TypeError
Comparable(events) ==
    \A i, j \in 1..Len(events) : events[i].timestamp.aware = events[j].timestamp.aware

(* ------------------------- sorted(events, key=timestamp) --------------- *)
\* stable: an event goes after every event that is not later than it
RECURSIVE InsertSorted(_, _)
InsertSorted(e, s) ==
    IF s = <<>> THEN <<e>>
    ELSE IF Before(e.timestamp, Head(s).timestamp) THEN <<e>> \o s
    ELSE <<Head(s)>> \o InsertSorted(e, Tail(s))

RECURSIVE SortLoop(_, _)
SortLoop(done, rest) ==
    IF rest = <<>> THEN done
    ELSE SortLoop(InsertSorted(Head(rest), done), Tail(rest))

\* variant: the events are scanned in input order
sorted_Unsorted(events) == events

sorted(events) == SortLoop(<<>>, events)

(* ------------------------- _detect_service_alerts ---------------------- *)
Alert(service, alert_at, missed_count, last_seen) ==
    [service |-> service, alert_at |-> alert_at,
     missed_count |-> missed_count, last_seen |-> last_seen]

\* variant: the tolerance is granted twice
WindowMissed_DoubleTolerance(self, expected_time, current_time) ==
    Before(PlusSeconds(expected_time, 2 * self.tolerance), current_time)

\* variant: a heartbeat exactly at the deadline counts as a miss
WindowMissed_Inclusive(self, expected_time, current_time) ==
    ~Before(current_time, PlusSeconds(expected_time, self.tolerance))

\* variant: the tolerance is left out of the deadline
WindowMissed_NoTolerance(self, expected_time, current_time) ==
    Before(expected_time, current_time)

\* variant: the tolerance is subtracted from the deadline
WindowMissed_MinusTolerance(self, expected_time, current_time) ==
    Before(PlusSeconds(expected_time, 0 - self.tolerance), current_time)

\* the condition of the while loop (monitor.py:263)
WindowMissed(self, expected_time, current_time) ==
    Before(PlusSeconds(expected_time, self.tolerance), current_time)

\* variant: the threshold has to be exceeded
ThresholdReached_Strict(self, consecutive_misses) ==
    consecutive_misses > self.config.allowed_misses

\* variant: the comparison is the wrong way round
ThresholdReached_Inverted(self, consecutive_misses) ==
    consecutive_misses < self.config.allowed_misses

\* the threshold test (monitor.py:272)
ThresholdReached(self, consecutive_misses) ==
    consecutive_misses >= self.config.allowed_misses

\* variant: the anchor stays at the last heartbeat after an alert
ResetAfterAlert_KeepAnchor(st, alert) ==
    [st EXCEPT !.alerts = Append(@, alert),
               !.consecutive_misses = 0]

\* variant: the miss counter is not reset after an alert
ResetAfterAlert_KeepCount(st, alert) ==
    [st EXCEPT !.alerts = Append(@, alert),
               !.last_heartbeat_time = st.expected_time]

\* the reset after an alert (monitor.py:285-287)
ResetAfterAlert(st, alert) ==
    [st EXCEPT !.alerts = Append(@, alert),
               !.consecutive_misses = 0,
               !.last_heartbeat_time = st.expected_time]

\* variant: the alert is stamped with the recovering heartbeat
WhileBody_AlertAtRecovery(self, service, st, current_time) ==
    LET counted == [st EXCEPT !.consecutive_misses = @ + 1]
        alerted == IF ThresholdReached(self, counted.consecutive_misses)
                   THEN ResetAfterAlert(counted,
                            Alert(service, current_time,
                                  counted.consecutive_misses,
                                  counted.last_heartbeat_time))
                   ELSE counted
    IN  [alerted EXCEPT !.expected_time = PlusSeconds(@, self.interval)]

\* one iteration of the while loop (monitor.py:264-290) on the scan state
\* st = [last_heartbeat_time, consecutive_misses, expected_time, alerts]
WhileBody(self, service, st, current_time) ==
    LET counted == [st EXCEPT !.consecutive_misses = @ + 1]
        alerted == IF ThresholdReached(self, counted.consecutive_misses)
                   THEN ResetAfterAlert(counted,
                            Alert(service, counted.expected_time,
                                  counted.consecutive_misses,
                                  counted.last_heartbeat_time))
                   ELSE counted
    IN  [alerted EXCEPT !.expected_time = PlusSeconds(@, self.interval)]

RECURSIVE WhileLoop(_, _, _, _)
WhileLoop(self, service, st, current_time) ==
    IF WindowMissed(self, st.expected_time, current_time)
    THEN WhileLoop(self, service, WhileBody(self, service, st, current_time), current_time)
    ELSE st

\* variant: a received heartbeat clears the counter but is not the new anchor
HeartbeatReceived_KeepAnchor(st, current_time) ==
    [st EXCEPT !.consecutive_misses = 0]

\* variant: the miss counter survives a received heartbeat
HeartbeatReceived_KeepCount(st, current_time) ==
    [st EXCEPT !.last_heartbeat_time = current_time]

\* the reset on a received heartbeat (monitor.py:297-298)
HeartbeatReceived(st, current_time) ==
    [st EXCEPT !.consecutive_misses = 0, !.last_heartbeat_time = current_time]

\* variant: the first expected window is the last heartbeat itself
ForBody_WindowAtHeartbeat(self, service, st, current_event) ==
    LET current_time == current_event.timestamp
        entered == [st EXCEPT !.expected_time = st.last_heartbeat_time]
    IN  HeartbeatReceived(WhileLoop(self, service, entered, current_time), current_time)

\* the body of the for loop (monitor.py:259-298) for one event
ForBody(self, service, st, current_event) ==
    LET current_time == current_event.timestamp
        entered == [st EXCEPT !.expected_time =
                        PlusSeconds(st.last_heartbeat_time, self.interval)]
    IN  HeartbeatReceived(WhileLoop(self, service, entered, current_time), current_time)

RECURSIVE ForLoop(_, _, _, _)
ForLoop(self, service, st, rest) ==
    IF rest = <<>> THEN st
    ELSE ForLoop(self, service, ForBody(self, service, st, Head(rest)), Tail(rest))

\* variant: the scan starts at the epoch instead of the first heartbeat
_detect_service_alerts_FromEpoch(self, service, events) ==
    IF events = <<>> THEN [raised |-> "", alerts |-> <<>>]
    ELSE IF ~Comparable(events) THEN [raised |-> "TypeError", alerts |-> <<>>]
    ELSE LET sorted_events == sorted(events)
             epoch == [sorted_events[1].timestamp EXCEPT !.utc = 0]
             st0 == [last_heartbeat_time |-> epoch,
                     consecutive_misses |-> 0,
                     expected_time |-> epoch,
                     alerts |-> <<>>]
         IN  [raised |-> "",
              alerts |-> ForLoop(self, service, st0, sorted_events).alerts]

\* [raised, alerts]; raised is "" or "TypeError" (sorting naive with aware)
_detect_service_alerts(self, service, events) ==
    IF events = <<>> THEN [raised |-> "", alerts |-> <<>>]
    ELSE IF ~Comparable(events) THEN [raised |-> "TypeError", alerts |-> <<>>]
    ELSE LET sorted_events == sorted(events)
             st0 == [last_heartbeat_time |-> sorted_events[1].timestamp,
                     consecutive_misses |-> 0,
                     expected_time |-> sorted_events[1].timestamp,
                     alerts |-> <<>>]
         IN  [raised |-> "",
              alerts |-> ForLoop(self, service, st0, Tail(sorted_events)).alerts]

(* ------------------------- detect_alerts ------------------------------- *)
\* the loop over services_map.items() (monitor.py:100-107)
\* variant: a service's alerts are put in front of those found so far
RECURSIVE ServicesLoop_Prepend(_, _, _, _)
ServicesLoop_Prepend(self, services_map, i, all_alerts) ==
    IF i > Len(services_map.keys) THEN [raised |-> "", alerts |-> all_alerts]
    ELSE LET service == services_map.keys[i]
             r == _detect_service_alerts(self, service, services_map.events[service])
         IN  IF r.raised # "" THEN [raised |-> r.raised, alerts |-> <<>>]
             ELSE ServicesLoop_Prepend(self, services_map, i + 1, r.alerts \o all_alerts)

RECURSIVE ServicesLoop(_, _, _, _)
ServicesLoop(self, services_map, i, all_alerts) ==
    IF i > Len(services_map.keys) THEN [raised |-> "", alerts |-> all_alerts]
    ELSE LET service == services_map.keys[i]
             r == _detect_service_alerts(self, service, services_map.events[service])
         IN  IF r.raised # "" THEN [raised |-> r.raised, alerts |-> <<>>]
             ELSE ServicesLoop(self, services_map, i + 1, all_alerts \o r.alerts)

NoValidation ==
    [total_events |-> 0, valid_events |-> 0, invalid_events |-> 0,
     errors |-> <<>>, skipped_reasons |-> NoReasons]

\* what a call returns: a MonitorResult (raised = "") or the exception raised
detect_alerts(self, raw_events) ==
    LET v == _validate_events(raw_events)
        services_map == _group_by_service(v.valid_events)
        r == ServicesLoop(self, services_map, 1, <<>>)
    IN  IF r.raised # ""
        THEN [raised |-> r.raised, alerts |-> <<>>, validation |-> NoValidation,
              services_monitored |-> <<>>]
        ELSE [raised |-> "", alerts |-> r.alerts,
              validation |-> v.validation_result,
              services_monitored |-> services_map.keys]

(* ------------------------- state --------------------------------------- *)
VARIABLES
    config,       \* self.config
    interval,     \* self.interval, in seconds
    tolerance,    \* self.tolerance, in seconds
    raw_events,   \* the batch of raw records handed to detect_alerts
    result,       \* what detect_alerts returned or raised for it
    scan          \* where a call that is followed step by step stands

vars == <<config, interval, tolerance, raw_events, result, scan>>

Self == [config |-> config, interval |-> interval, tolerance |-> tolerance]

\* MonitorConfig within its Field bounds (ge=1, ge=1, ge=0)
Configs ==
    [expected_interval_seconds : 1..MaxInterval,
     allowed_misses : 1..MaxMisses,
     tolerance_seconds : 0..MaxTolerance]

NoCall ==
    [raised |-> "NoCall", alerts |-> <<>>, validation |-> NoValidation,
     services_monitored |-> <<>>]

\* the locals of _detect_service_alerts before a scan has started
NoScan ==
    [last_heartbeat_time |-> Datetime(0, TRUE), consecutive_misses |-> 0,
     expected_time |-> Datetime(0, TRUE), alerts |-> <<>>]

\* no call is being followed step by step
Idle ==
    [pc |-> "idle", validation |-> NoValidation,
     services_map |-> [keys |-> <<>>, events |-> [k \in {} |-> <<>>]],
     i |-> 1, all_alerts |-> <<>>, st |-> NoScan, rest |-> <<>>]

\* all lists of at most MaxEvents records drawn from Records
Batches(Records) == UNION {[1..n -> Records] : n \in 0..MaxEvents}

\* well-formed heartbeats of one service, timestamps with a "Z" suffix
Heartbeats == {RawEvent(Str(<<"a">>), IsoZ(t, 0)) : t \in 0..MaxTime}

\* a monitor has been constructed and a batch has been loaded for it
InitWith(Records) ==
    /\ config \in Configs
    /\ interval = HeartbeatMonitor(config).interval
    /\ tolerance = HeartbeatMonitor(config).tolerance
    /\ raw_events \in Batches(Records)
    /\ result = NoCall
    /\ scan = Idle

Init == InitWith(Heartbeats)

\* result = monitor.detect_alerts(raw_events)
DetectAlerts ==
    /\ result' = detect_alerts(Self, raw_events)
    /\ UNCHANGED <<config, interval, tolerance, raw_events, scan>>

Next == DetectAlerts

Spec == Init /\ [][Next]_vars

\* the same instants written by a sender one second east of UTC, under an
\* upper-case service name
OffsetHeartbeats == {RawEvent(Str(<<"B">>), IsoZ(t + 1, 1)) : t \in 0..MaxTime}

InitScan == InitWith(OffsetHeartbeats)

SpecScan == InitScan /\ [][Next]_vars

(* ------------------------- batches with malformed records -------------- *)
\* what the service key of a raw record may hold: a name in upper case, the
\* empty string, a blank string, a name outside the pattern, null, a number
ServiceValues ==
    {Str(<<"A">>), Str(<<>>), Str(<<" ">>), Str(<<"!">>), None, IntVal(1)}

\* what the timestamp key may hold: an instant, the empty string, a string
\* that is no datetime, null
TimestampValues ==
    {IsoZ(0, 0), Str(<<>>), Str(<<"x">>), None}

\* a dict with only the keys of `keys`
RawRecord(keys, sv, tv) ==
    [k \in keys |-> IF k = "service" THEN sv ELSE tv]

\* every record over these values, with either key present or absent
AnyRecords ==
    {RawRecord({"service", "timestamp"}, sv, tv) : sv \in ServiceValues, tv \in TimestampValues}
    \cup {RawRecord({"service"}, sv, None) : sv \in ServiceValues}
    \cup {RawRecord({"timestamp"}, None, tv) : tv \in TimestampValues}
    \cup {RawRecord({}, None, None)}

\* one monitor; validation does not read the config
ValidationConfig ==
    [expected_interval_seconds |-> 1, allowed_misses |-> 1, tolerance_seconds |-> 0]

InitValidation ==
    /\ config = ValidationConfig
    /\ interval = HeartbeatMonitor(config).interval
    /\ tolerance = HeartbeatMonitor(config).tolerance
    /\ raw_events \in UNION {[1..n -> AnyRecords] : n \in 0..MaxRecords}
    /\ result = NoCall
    /\ scan = Idle

SpecValidation == InitValidation /\ [][Next]_vars

(* ------------------------- batches of several services ----------------- *)
\* heartbeats of two services, one of them spelled in three ways, one of
\* them with a timestamp that has no offset, and one unparsable record
MultiRecords ==
    {RawEvent(Str(<<"a">>), IsoZ(0, 0)),
     RawEvent(Str(<<"A">>), IsoZ(2, 0)),
     RawEvent(Str(<<" ", "a">>), IsoZ(2, 0)),
     RawEvent(Str(<<"b">>), IsoZ(0, 0)),
     RawEvent(Str(<<"b">>), IsoZ(2, 0)),
     RawEvent(Str(<<"b">>), IsoNaive(0)),
     RawEvent(Str(<<"b">>), Str(<<"x">>))}

\* interval 1 and no tolerance, every threshold within the bounds
MultiConfigs ==
    [expected_interval_seconds : {1},
     allowed_misses : 1..MaxMisses,
     tolerance_seconds : {0}]

InitMulti ==
    /\ config \in MultiConfigs
    /\ interval = HeartbeatMonitor(config).interval
    /\ tolerance = HeartbeatMonitor(config).tolerance
    /\ raw_events \in Batches(MultiRecords)
    /\ result = NoCall
    /\ scan = Idle

SpecMulti == InitMulti /\ [][Next]_vars

\* a value handed to detect_alerts that need not be a list: a list of records,
\* a dict (given by its keys in order), a string, a number or None
ListOf(records) == [kind |-> "list", items |-> records]

DictOf(raw_event) ==
    [kind |-> "dict",
     items |-> SelectSeq(<<"service", "timestamp">>, LAMBDA k : k \in DOMAIN raw_event)]

\* len(raw_events) (monitor.py:86) and enumerate(raw_events) (monitor.py:146):
\* [raised, items]; a dict yields its keys, a string its characters
Enumerate(value) ==
    CASE value.kind = "list" -> [raised |-> "", items |-> value.items]
      [] value.kind = "dict" ->
            [raised |-> "",
             items |-> [i \in 1..Len(value.items) |-> Str(<<value.items[i]>>)]]
      [] value.kind = "str" ->
            [raised |-> "",
             items |-> [i \in 1..Len(value.chars) |-> Str(<<value.chars[i]>>)]]
      [] OTHER -> [raised |-> "TypeError", items |-> <<>>]

\* detect_alerts on any value
detect_alerts_on(self, value) ==
    LET e == Enumerate(value) IN
    IF e.raised # ""
    THEN [raised |-> e.raised, alerts |-> <<>>, validation |-> NoValidation,
          services_monitored |-> <<>>]
    ELSE detect_alerts(self, e.items)

AnyValues ==
    {ListOf(records) : records \in UNION {[1..n -> AnyRecords] : n \in 0..MaxRecords}}
        \cup {DictOf(raw_event) : raw_event \in AnyRecords}
        \cup {Str(<<>>), Str(<<"a">>), Str(<<"a", "b">>), IntVal(0), IntVal(1), None}

InitAnyValue ==
    /\ config = ValidationConfig
    /\ interval = HeartbeatMonitor(config).interval
    /\ tolerance = HeartbeatMonitor(config).tolerance
    /\ raw_events \in AnyValues
    /\ result = NoCall
    /\ scan = Idle

DetectAlertsOnValue ==
    /\ result' = detect_alerts_on(Self, raw_events)
    /\ UNCHANGED <<config, interval, tolerance, raw_events, scan>>

NextAnyValue == DetectAlertsOnValue

SpecAnyValue == InitAnyValue /\ [][NextAnyValue]_vars

\* several calls on one monitor: raw_events holds the inputs of the calls made
\* so far, the latest last
CallRecords ==
    {RawEvent(Str(<<"a">>), IsoZ(0, 0)),
     RawEvent(Str(<<"a">>), IsoZ(3, 0))}

CallBatches == UNION {[1..n -> CallRecords] : n \in 0..MaxCallEvents}

InitCalls ==
    /\ config \in MultiConfigs
    /\ interval = HeartbeatMonitor(config).interval
    /\ tolerance = HeartbeatMonitor(config).tolerance
    /\ raw_events = <<>>
    /\ result = NoCall
    /\ scan = Idle

\* variant: the alerts of the earlier calls stay in the result
DetectAlertsCall_KeepAlerts ==
    /\ Len(raw_events) < MaxCalls
    /\ \E raw \in CallBatches :
        /\ raw_events' = Append(raw_events, raw)
        /\ result' = [detect_alerts(Self, raw) EXCEPT !.alerts = result.alerts \o @]
    /\ UNCHANGED <<config, interval, tolerance, scan>>

DetectAlertsCall ==
    /\ Len(raw_events) < MaxCalls
    /\ \E raw \in CallBatches :
        /\ raw_events' = Append(raw_events, raw)
        /\ result' = detect_alerts(Self, raw)
    /\ UNCHANGED <<config, interval, tolerance, scan>>

NextCalls == DetectAlertsCall

SpecCalls == InitCalls /\ [][NextCalls]_vars

\* one call followed step by step through the loops of detect_alerts and
\* _detect_service_alerts; scan.pc is the place the call has reached
InitSteps ==
    /\ config \in Configs
    /\ interval = HeartbeatMonitor(config).interval
    /\ tolerance = HeartbeatMonitor(config).tolerance
    /\ raw_events \in UNION {[1..n -> Heartbeats] : n \in 0..MaxStepEvents}
    /\ result = NoCall
    /\ scan = Idle

\* the locals of detect_alerts after validation and grouping (monitor.py:89,
\* 96, 100)
Entered(events) ==
    LET v == _validate_events(events) IN
    [Idle EXCEPT !.pc = "services",
                 !.validation = v.validation_result,
                 !.services_map = _group_by_service(v.valid_events)]

\* detect_alerts is entered: validation and grouping (monitor.py:85-100)
Enter ==
    /\ scan.pc = "idle"
    /\ result = NoCall
    /\ scan' = Entered(raw_events)
    /\ UNCHANGED <<config, interval, tolerance, raw_events, result>>

\* the start of _detect_service_alerts on a service's events (monitor.py:
\* 244-255): sorting raises, or the locals are set up for the for loop
BeginScan(sc, events) ==
    IF ~Comparable(events)
    THEN [sc EXCEPT !.pc = "done"]
    ELSE LET sorted_events == sorted(events) IN
         [sc EXCEPT
            !.pc = "for",
            !.st = [last_heartbeat_time |-> sorted_events[1].timestamp,
                    consecutive_misses |-> 0,
                    expected_time |-> sorted_events[1].timestamp,
                    alerts |-> <<>>],
            !.rest = Tail(sorted_events)]

\* the next service is taken and its scan begins (monitor.py:101-102)
NextService ==
    /\ scan.pc = "services"
    /\ scan.i <= Len(scan.services_map.keys)
    /\ scan' = BeginScan(scan, scan.services_map.events[scan.services_map.keys[scan.i]])
    /\ result' = IF scan'.pc = "done"
                 THEN [raised |-> "TypeError", alerts |-> <<>>,
                       validation |-> NoValidation, services_monitored |-> <<>>]
                 ELSE result
    /\ UNCHANGED <<config, interval, tolerance, raw_events>>

\* the for loop takes the next heartbeat (monitor.py:258-260)
ForNext ==
    /\ scan.pc = "for"
    /\ scan.rest # <<>>
    /\ scan' = [scan EXCEPT
            !.pc = "while",
            !.st.expected_time = PlusSeconds(scan.st.last_heartbeat_time, interval)]
    /\ UNCHANGED <<config, interval, tolerance, raw_events, result>>

\* one iteration of the while loop (monitor.py:263-290)
WhileStep ==
    /\ scan.pc = "while"
    /\ WindowMissed(Self, scan.st.expected_time, Head(scan.rest).timestamp)
    /\ scan' = [scan EXCEPT
            !.st = WhileBody(Self, scan.services_map.keys[scan.i], scan.st,
                             Head(scan.rest).timestamp)]
    /\ UNCHANGED <<config, interval, tolerance, raw_events, result>>

\* variant: the for loop does not move on to the next heartbeat
WhileExit_SameHeartbeat ==
    /\ scan.pc = "while"
    /\ ~WindowMissed(Self, scan.st.expected_time, Head(scan.rest).timestamp)
    /\ scan' = [scan EXCEPT
            !.pc = "for",
            !.st = HeartbeatReceived(scan.st, Head(scan.rest).timestamp)]
    /\ UNCHANGED <<config, interval, tolerance, raw_events, result>>

\* the while loop ends and the heartbeat is recorded (monitor.py:263, 297-298)
WhileExit ==
    /\ scan.pc = "while"
    /\ ~WindowMissed(Self, scan.st.expected_time, Head(scan.rest).timestamp)
    /\ scan' = [scan EXCEPT
            !.pc = "for",
            !.st = HeartbeatReceived(scan.st, Head(scan.rest).timestamp),
            !.rest = Tail(scan.rest)]
    /\ UNCHANGED <<config, interval, tolerance, raw_events, result>>

\* the service's alerts are returned and collected (monitor.py:305, 103)
ServiceDone ==
    /\ scan.pc = "for"
    /\ scan.rest = <<>>
    /\ scan' = [scan EXCEPT
            !.pc = "services",
            !.i = scan.i + 1,
            !.all_alerts = scan.all_alerts \o scan.st.alerts]
    /\ UNCHANGED <<config, interval, tolerance, raw_events, result>>

\* the result is built and returned (monitor.py:113-124)
Return ==
    /\ scan.pc = "services"
    /\ scan.i > Len(scan.services_map.keys)
    /\ result' = [raised |-> "", alerts |-> scan.all_alerts,
                  validation |-> scan.validation,
                  services_monitored |-> scan.services_map.keys]
    /\ scan' = [scan EXCEPT !.pc = "done"]
    /\ UNCHANGED <<config, interval, tolerance, raw_events>>

\* the steps of a call that has been entered
Running ==
    \/ NextService
    \/ ForNext
    \/ WhileStep
    \/ WhileExit
    \/ ServiceDone
    \/ Return

NextSteps == Enter \/ Running

\* a call that has been entered keeps running: nothing in it waits
SpecSteps == InitSteps /\ [][NextSteps]_vars /\ WF_vars(Running)

\* batches of two services that can both have a gap: a at 0 and 3, b at 0 and 2
PairedRecords ==
    {RawEvent(Str(<<"a">>), IsoZ(0, 0)),
     RawEvent(Str(<<"a">>), IsoZ(3, 0)),
     RawEvent(Str(<<"b">>), IsoZ(0, 0)),
     RawEvent(Str(<<"b">>), IsoZ(2, 0))}

InitPaired ==
    /\ config \in MultiConfigs
    /\ interval = HeartbeatMonitor(config).interval
    /\ tolerance = HeartbeatMonitor(config).tolerance
    /\ raw_events \in UNION {[1..n -> PairedRecords] : n \in 0..MaxPairedEvents}
    /\ result = NoCall
    /\ scan = Idle

SpecPaired == InitPaired /\ [][Next]_vars

(* ------------------------- vocabulary of the properties ---------------- *)
Returned == result.raised = ""

Accepted == _validate_events(raw_events).valid_events

\* the instants of a list of heartbeats
TimesOf(events) == {events[i].timestamp.utc : i \in 1..Len(events)}

\* the pairs h < e of consecutive instants of T
GapsOf(T) ==
    {g \in T \X T :
        /\ g[1] < g[2]
        /\ ~\E t \in T : g[1] < t /\ t < g[2]}

\* per service of the batch: its accepted heartbeats in batch order, their
\* instants, the gaps between consecutive instants, and its alerts in the result
View ==
    LET acc == Accepted IN
    [s \in {acc[i].service : i \in 1..Len(acc)} |->
        LET events == SelectSeq(acc, LAMBDA event : event.service = s)
            T == TimesOf(events)
        IN  [events |-> events,
             times |-> T,
             gaps |-> GapsOf(T),
             alerts |-> SelectSeq(result.alerts, LAMBDA alert : alert.service = s)]]

\* the expected windows h + k*interval of the gap h < e that e missed
MissedWindows(h, e) ==
    {k \in 1..(MaxTime + 1) : h + k * interval + tolerance < e}

Missed(h, e) == Cardinality(MissedWindows(h, e))

\* the alerts raised at an expected window inside the gap h < e
InGap(alerts, h, e) ==
    SelectSeq(alerts, LAMBDA alert : h < alert.alert_at.utc /\ alert.alert_at.utc < e)

RECURSIVE SumOver(_, _)
SumOver(S, f) ==
    IF S = {} THEN 0
    ELSE LET x == CHOOSE y \in S : TRUE IN f[x] + SumOver(S \ {x}, f)

(* ------------------------- C1 ------------------------------------------ *)
\* C1: every alert that detect_alerts returns has missed_count exactly equal
\* to config.allowed_misses, never less and never more.
C1_MissedCountIsAllowedMisses ==
    Returned =>
        \A i \in 1..Len(result.alerts) :
            result.alerts[i].missed_count = config.allowed_misses

\* a long outage: two alerts with a threshold above one
C1_Witness ==
    /\ Returned
    /\ config.allowed_misses >= 2
    /\ Len(result.alerts) >= 2

C3_ThresholdBoundary ==
    Returned =>
        LET V == View IN
        \A s \in DOMAIN V : \A g \in V[s].gaps :
            LET m == Missed(g[1], g[2])
                n == Len(InGap(V[s].alerts, g[1], g[2]))
            IN  /\ m = config.allowed_misses => n = 1
                /\ m < config.allowed_misses => n = 0

\* one service with a gap exactly at the threshold and a gap one miss short
C3_Witness ==
    /\ Returned
    /\ config.allowed_misses >= 2
    /\ LET V == View IN
       \E s \in DOMAIN V : \E g1, g2 \in V[s].gaps :
        /\ Missed(g1[1], g1[2]) = config.allowed_misses
        /\ Missed(g2[1], g2[2]) = config.allowed_misses - 1

(* ------------------------- C4 ------------------------------------------ *)
\* C4: a gap with m missed windows produces floor(m / allowed_misses)
\* alerts, and a service's alert count is the sum of that over its gaps.
C4_AlertsPerGap ==
    Returned =>
        LET V == View IN
        \A s \in DOMAIN V :
            LET expected == [g \in V[s].gaps |->
                                Missed(g[1], g[2]) \div config.allowed_misses]
            IN  /\ \A g \in V[s].gaps :
                        Len(InGap(V[s].alerts, g[1], g[2])) = expected[g]
                /\ Len(V[s].alerts) = SumOver(V[s].gaps, expected)

\* two gaps in one service, one of them with an alert and a remainder of misses
C4_Witness ==
    /\ Returned
    /\ config.allowed_misses >= 2
    /\ LET V == View IN
       \E s \in DOMAIN V :
        /\ Cardinality(V[s].gaps) >= 2
        /\ \E g \in V[s].gaps :
            /\ Missed(g[1], g[2]) \div config.allowed_misses >= 1
            /\ Missed(g[1], g[2]) % config.allowed_misses # 0

(* ------------------------- C5 ------------------------------------------ *)
\* C5: the last_seen of every alert is the timestamp of an accepted
\* heartbeat of the alert's service.
C5_LastSeenIsHeartbeat ==
    Returned =>
        LET V == View IN
        \A i \in 1..Len(result.alerts) :
            result.alerts[i].last_seen.utc \in V[result.alerts[i].service].times

(* ------------------------- C6 ------------------------------------------ *)
Permute(seq, p) == [i \in 1..Len(seq) |-> seq[p[i]]]

\* the orderings of a list of events
Orderings(events) ==
    {Permute(events, p) : p \in Permutations(1..Len(events))}

\* C6: for every service, every reordering of its events gives the detector
\* the same sequence of alerts as the order of the batch does.
C6_OrderIndependent ==
    Returned =>
        LET V == View IN
        \A s \in DOMAIN V :
            \A other \in Orderings(V[s].events) :
                LET r == _detect_service_alerts(Self, s, other)
                IN  r.raised = "" /\ r.alerts = V[s].alerts

\* a batch that is not in chronological order and has an alert
C6_Witness ==
    /\ Returned
    /\ result.alerts # <<>>
    /\ LET acc == Accepted IN
       \E i, j \in 1..Len(acc) :
            i < j /\ acc[j].timestamp.utc < acc[i].timestamp.utc

(* ------------------------- C7 ------------------------------------------ *)
WithMisses(a) == HeartbeatMonitor([config EXCEPT !.allowed_misses = a])

\* C7: a larger allowed_misses never gives more alerts for the same batch,
\* interval and tolerance.
C7_MonotoneInAllowedMisses ==
    Returned =>
        \A a \in (config.allowed_misses + 1)..(MaxMisses + 1) :
            Len(detect_alerts(WithMisses(a), raw_events).alerts) <= Len(result.alerts)

\* a batch with alerts that loses some of them under a larger threshold and
\* keeps some
C7_Witness ==
    /\ Returned
    /\ \E a \in (config.allowed_misses + 1)..(MaxMisses + 1) :
        LET n == Len(detect_alerts(WithMisses(a), raw_events).alerts)
        IN  0 < n /\ n < Len(result.alerts)

(* ------------------------- C8 ------------------------------------------ *)
WithTolerance(t) == HeartbeatMonitor([config EXCEPT !.tolerance_seconds = t])

\* C8: a larger tolerance_seconds never gives more alerts for the same
\* batch, interval and allowed_misses.
C8_MonotoneInTolerance ==
    Returned =>
        \A t \in (config.tolerance_seconds + 1)..(MaxTolerance + 1) :
            Len(detect_alerts(WithTolerance(t), raw_events).alerts) <= Len(result.alerts)

\* a batch with alerts that loses some of them under a larger tolerance
C8_Witness ==
    /\ Returned
    /\ \E t \in (config.tolerance_seconds + 1)..(MaxTolerance + 1) :
        LET n == Len(detect_alerts(WithTolerance(t), raw_events).alerts)
        IN  0 < n /\ n < Len(result.alerts)

(* ------------------------- C9 ------------------------------------------ *)
\* C9: a heartbeat e with e <= h + interval + tolerance after heartbeat h
\* adds no miss: its gap has no alert whatever allowed_misses is, and a
\* service whose gaps are all that short has no alert at all.
C9_LateWithinToleranceIsOnTime ==
    Returned =>
        LET V == View IN
        \A s \in DOMAIN V :
            /\ \A g \in V[s].gaps :
                g[2] <= g[1] + interval + tolerance
                    => InGap(V[s].alerts, g[1], g[2]) = <<>>
            /\ (\A g \in V[s].gaps : g[2] <= g[1] + interval + tolerance)
                    => V[s].alerts = <<>>

\* allowed_misses = 1 and a heartbeat exactly at the end of the tolerance
C9_Witness ==
    /\ Returned
    /\ config.allowed_misses = 1
    /\ tolerance >= 1
    /\ LET V == View IN
       \E s \in DOMAIN V :
        /\ \E g \in V[s].gaps : g[2] = g[1] + interval + tolerance
        /\ \A g \in V[s].gaps : g[2] <= g[1] + interval + tolerance

(* ------------------------- C10 ----------------------------------------- *)
\* C10: every alert has alert_at + tolerance before a later heartbeat of
\* its service, hence alert_at before the latest heartbeat of the service.
C10_NoAlertForOngoingOutage ==
    Returned =>
        LET V == View IN
        \A i \in 1..Len(result.alerts) :
            LET alert == result.alerts[i]
                T == V[alert.service].times
            IN  /\ \E t \in T : alert.alert_at.utc + tolerance < t
                /\ \A t \in T : (\A u \in T : u <= t) => alert.alert_at.utc < t

\* an alert under a positive tolerance whose deadline ends one second before
\* the latest heartbeat of the service
C10_Witness ==
    /\ Returned
    /\ tolerance >= 1
    /\ LET V == View IN
       \E i \in 1..Len(result.alerts) :
        LET alert == result.alerts[i]
            T == V[alert.service].times
        IN  \E t \in T :
                /\ \A u \in T : u <= t
                /\ alert.alert_at.utc + tolerance + 1 = t

(* ------------------------- C11 ----------------------------------------- *)
\* C11: a service with no or exactly one accepted event gets no alert, and
\* an empty batch gives total_events = 0, valid_events = 0 and no alerts.
C11_FewerThanTwoEvents ==
    Returned =>
        LET V == View IN
        /\ \A i \in 1..Len(result.alerts) :
            /\ result.alerts[i].service \in DOMAIN V
            /\ Len(V[result.alerts[i].service].events) >= 2
        /\ raw_events = <<>> =>
            /\ result.validation.total_events = 0
            /\ result.validation.valid_events = 0
            /\ result.alerts = <<>>

\* a service with a single late heartbeat next to a service with an alert
C11_Witness ==
    /\ Returned
    /\ result.alerts # <<>>
    /\ LET V == View IN
       \E s \in DOMAIN V :
        /\ Len(V[s].events) = 1
        /\ V[s].events[1].timestamp.utc > interval

(* ------------------------- C12 ----------------------------------------- *)
\* C12: valid_events + invalid_events = total_events = the number of input
\* records, and the counts of skipped_reasons add up to invalid_events.
C12_CountsReconcile ==
    Returned =>
        LET v == result.validation IN
        /\ v.total_events = Len(raw_events)
        /\ v.valid_events + v.invalid_events = v.total_events
        /\ SumOver(DOMAIN v.skipped_reasons, v.skipped_reasons) = v.invalid_events

\* two records rejected for the same reason
C12_Witness ==
    /\ Returned
    /\ \E r \in DOMAIN result.validation.skipped_reasons :
            result.validation.skipped_reasons[r] >= 2

(* ------------------------- well-formed records ------------------------- *)
\* the characters of the identifier pattern and their lower-case forms
NameAlphabet == {"a", "b", "A", "B", "0", "_", "-"}

Lowercase ==
    [c \in NameAlphabet |-> CASE c = "A" -> "a" [] c = "B" -> "b" [] OTHER -> c]

\* where the identifier sits in a string that is an identifier with blanks
\* around it: the pairs <<first, last>> (at most one)
NameSpan(chars) ==
    {sp \in (1..Len(chars)) \X (1..Len(chars)) :
        /\ sp[1] <= sp[2]
        /\ \A k \in 1..Len(chars) :
                IF sp[1] <= k /\ k <= sp[2]
                THEN chars[k] \in NameAlphabet
                ELSE chars[k] = " "}

\* a record with both keys, an identifier as service and a datetime string
WellFormed(raw_event) ==
    /\ DOMAIN raw_event = {"service", "timestamp"}
    /\ raw_event["service"].kind = "str"
    /\ NameSpan(raw_event["service"].chars) # {}
    /\ raw_event["timestamp"].kind = "iso"

\* the identifier of a well-formed record, trimmed and in lower case
CanonicalName(raw_event) ==
    LET chars == raw_event["service"].chars
        sp == CHOOSE x \in NameSpan(chars) : TRUE
    IN  [k \in 1..(sp[2] - sp[1] + 1) |-> Lowercase[chars[sp[1] + k - 1]]]

\* the positions of the rejected records of the batch, in input order
RejectedPositions ==
    SelectSeq([i \in 1..Len(raw_events) |-> i], LAMBDA i : ~WellFormed(raw_events[i]))

\* the reasons the messages of the record at position i carry
Reported(i) ==
    {result.validation.errors[k].reason :
        k \in {j \in 1..Len(result.validation.errors) :
                    result.validation.errors[j].idx = i - 1}}

Empty(v) == v \in {None, Str(<<>>)}

Blank(v) == v.kind = "str" /\ \A k \in 1..Len(v.chars) : v.chars[k] = " "

SixReasons ==
    {"missing_service", "missing_timestamp", "empty_service", "empty_timestamp",
     "invalid_service_format", "invalid_timestamp_format"}

(* ------------------------- C13 ----------------------------------------- *)
\* C13: a record without the service key is reported missing_service and
\* one with the service key but without the timestamp key missing_timestamp,
\* whatever the other field holds; a record with both keys and an empty
\* value is reported empty_service or empty_timestamp, whatever the format
\* of the other field.
C13_ReasonPriority ==
    Returned =>
        \A i \in 1..Len(raw_events) :
            LET rec == raw_events[i] IN
            /\ "service" \notin DOMAIN rec => Reported(i) = {"missing_service"}
            /\ "service" \in DOMAIN rec /\ "timestamp" \notin DOMAIN rec
                    => Reported(i) = {"missing_timestamp"}
            /\ DOMAIN rec = {"service", "timestamp"} /\ Empty(rec["service"])
                    => Reported(i) = {"empty_service"}
            /\ DOMAIN rec = {"service", "timestamp"} /\ ~Empty(rec["service"])
                    /\ Empty(rec["timestamp"])
                    => Reported(i) = {"empty_timestamp"}

(* ------------------------- C14 ----------------------------------------- *)
\* C14: every rejected record is counted under exactly one reason, and the
\* reason is one of the six defined ones.
C14_OneOfSixReasons ==
    Returned =>
        LET v == result.validation IN
        /\ SumOver(DOMAIN v.skipped_reasons, v.skipped_reasons) = Len(RejectedPositions)
        /\ DOMAIN v.skipped_reasons \subseteq SixReasons

(* ------------------------- C15 ----------------------------------------- *)
\* C15: a record with both keys and a timestamp value whose service is the
\* empty string or only blanks is rejected with the reason empty_service.
C15_BlankServiceIsEmpty ==
    Returned =>
        \A i \in 1..Len(raw_events) :
            LET rec == raw_events[i] IN
            /\ DOMAIN rec = {"service", "timestamp"}
            /\ Blank(rec["service"])
            /\ ~Empty(rec["timestamp"])
            => Reported(i) = {"empty_service"}

(* ------------------------- C16 ----------------------------------------- *)
\* the batch without its rejected records
WellFormedOnly == SelectSeq(raw_events, WellFormed)

\* the instant a well-formed record denotes
InstantOf(raw_event) ==
    LET t == raw_event["timestamp"] IN
    IF t.hasOffset THEN [utc |-> t.local - t.offset, aware |-> TRUE]
    ELSE [utc |-> t.local, aware |-> FALSE]

\* C16: the call yields the alerts and services_monitored of the same batch
\* with the rejected records removed, and the accepted events are exactly the
\* well-formed records in their original relative order.
C16_MalformedDegradesOnlyItself ==
    result # NoCall =>
        LET kept == WellFormedOnly
            clean == detect_alerts(Self, kept)
            acc == Accepted
        IN  /\ result.raised = clean.raised
            /\ result.alerts = clean.alerts
            /\ result.services_monitored = clean.services_monitored
            /\ Len(acc) = Len(kept)
            /\ \A k \in 1..Len(kept) :
                    /\ acc[k].service = CanonicalName(kept[k])
                    /\ acc[k].timestamp = InstantOf(kept[k])

C16_Witness ==
    /\ Returned
    /\ result.alerts # <<>>
    /\ \E i, j \in 1..Len(raw_events) :
            i < j /\ ~WellFormed(raw_events[i]) /\ WellFormed(raw_events[j])

(* ------------------------- C17 ----------------------------------------- *)
\* how a message spells the reason a record is counted under
MessageLabel(reason) ==
    IF reason = "unexpected_error" THEN "Unexpected error" ELSE reason

\* C17: errors holds one message per rejected record (as many as
\* invalid_events), in input order, each with the record's position in the
\* original list (from 0) and the reason the record is counted under.
C17_OneMessagePerRejected ==
    Returned =>
        LET v == result.validation
            rej == RejectedPositions
        IN  /\ Len(v.errors) = v.invalid_events
            /\ Len(v.errors) = Len(rej)
            /\ \A k \in 1..Len(rej) : v.errors[k].idx = rej[k] - 1
            /\ \A k \in 1..Len(v.errors) :
                    \E r \in DOMAIN v.skipped_reasons :
                        v.errors[k].reason = MessageLabel(r)
            /\ \A r \in DOMAIN v.skipped_reasons :
                    Cardinality({k \in 1..Len(v.errors) :
                                    v.errors[k].reason = MessageLabel(r)})
                        = v.skipped_reasons[r]

C17_Witness ==
    /\ Returned
    /\ Len(raw_events) = 2
    /\ WellFormed(raw_events[1])
    /\ Len(result.validation.errors) = 1
    /\ result.validation.errors[1].idx = 1

(* ------------------------- C18 ----------------------------------------- *)
\* the batch with every well-formed record's service written in its trimmed
\* lower-case form
Canonical(events) ==
    [i \in 1..Len(events) |->
        IF WellFormed(events[i])
        THEN [events[i] EXCEPT !["service"] = Str(CanonicalName(events[i]))]
        ELSE events[i]]

\* C18: identifiers that differ only in case or surrounding blanks are one
\* service: their events are under one lower-case key, and the outcome is
\* that of the batch with every event carrying the lower-case name.
C18_CaseInsensitiveService ==
    result # NoCall =>
        LET same == detect_alerts(Self, Canonical(raw_events)) IN
        /\ result.raised = same.raised
        /\ result.alerts = same.alerts
        /\ Returned =>
            /\ \A i \in 1..Len(raw_events) :
                    WellFormed(raw_events[i]) =>
                        Cardinality({k \in 1..Len(result.services_monitored) :
                            result.services_monitored[k] = CanonicalName(raw_events[i])}) = 1
            /\ \A k \in 1..Len(result.services_monitored) :
                    \A n \in 1..Len(result.services_monitored[k]) :
                        LET c == result.services_monitored[k][n] IN
                        c \in NameAlphabet /\ Lowercase[c] = c

C18_Witness ==
    /\ Returned
    /\ result.alerts # <<>>
    /\ Len(result.services_monitored) = 1
    /\ \E i, j \in 1..Len(raw_events) :
            /\ WellFormed(raw_events[i]) /\ WellFormed(raw_events[j])
            /\ raw_events[i]["service"] = Str(<<"a">>)
            /\ raw_events[j]["service"] = Str(<<"A">>)

(* ------------------------- C19 ----------------------------------------- *)
\* the records of the batch that belong to service s
RecordsOf(s) ==
    SelectSeq(raw_events,
              LAMBDA rec : WellFormed(rec) /\ CanonicalName(rec) = s)

\* C19: the alerts reported for a service are those of a call on that
\* service's records alone, whatever the other services' events are.
C19_ServiceIndependence ==
    result # NoCall =>
        \A i \in 1..Len(raw_events) :
            WellFormed(raw_events[i]) =>
                LET s == CanonicalName(raw_events[i])
                    alone == detect_alerts(Self, RecordsOf(s))
                IN  alone.raised = "" =>
                        /\ Returned
                        /\ SelectSeq(result.alerts, LAMBDA alert : alert.service = s)
                                = alone.alerts

(* ------------------------- C20 ----------------------------------------- *)
\* the service names of the well-formed records, in input order
NamesInOrder ==
    LET kept == WellFormedOnly IN
    [k \in 1..Len(kept) |-> CanonicalName(kept[k])]

\* the first position of name n in the sequence names
FirstOccurrence(names, n) ==
    CHOOSE k \in 1..Len(names) :
        names[k] = n /\ \A j \in 1..(k - 1) : names[j] # n

\* C20: services_monitored holds exactly the distinct normalised names of
\* the accepted events, each once, in the order of their first occurrence in
\* the input.
C20_ServicesMonitored ==
    Returned =>
        LET sm == result.services_monitored
            names == NamesInOrder
        IN  /\ \A i, j \in 1..Len(sm) : sm[i] = sm[j] => i = j
            /\ {sm[i] : i \in 1..Len(sm)} = {names[k] : k \in 1..Len(names)}
            /\ \A i, j \in 1..Len(sm) :
                    i < j => FirstOccurrence(names, sm[i]) < FirstOccurrence(names, sm[j])

C20_Witness ==
    /\ Returned
    /\ Len(result.services_monitored) = 2
    /\ Len(NamesInOrder) = 3
    /\ NamesInOrder[1] = NamesInOrder[3]

(* ------------------------- C21 ----------------------------------------- *)
\* the position of service s in services_monitored
PlaceOf(s) ==
    CHOOSE k \in 1..Len(result.services_monitored) : result.services_monitored[k] = s

\* C21: alerts lists each service's alerts together, services in
\* services_monitored order, and within one service in strictly increasing
\* alert_at order.
C21_AlertsGroupedByService ==
    Returned =>
        \A i, j \in 1..Len(result.alerts) :
            i < j =>
                LET x == result.alerts[i]
                    y == result.alerts[j]
                IN  /\ \E k \in 1..Len(result.services_monitored) :
                            result.services_monitored[k] = x.service
                    /\ PlaceOf(x.service) <= PlaceOf(y.service)
                    /\ x.service = y.service => x.alert_at.utc < y.alert_at.utc

\* the list is not sorted by time over all services
C21_Witness ==
    /\ Returned
    /\ \E i, j \in 1..Len(result.alerts) :
            /\ i < j
            /\ result.alerts[i].service # result.alerts[j].service
            /\ result.alerts[i].alert_at.utc > result.alerts[j].alert_at.utc
    /\ \E i, j \in 1..Len(result.alerts) :
            i < j /\ result.alerts[i].service = result.alerts[j].service

(* ------------------------- C22 ----------------------------------------- *)
\* C22: a call on a list of records always returns a result, and with no
\* valid record the result has no alerts, no services_monitored and
\* invalid_events = total_events.
C22_NeverAborts ==
    result # NoCall =>
        /\ Returned
        /\ result.validation.valid_events = 0 =>
            /\ result.alerts = <<>>
            /\ result.services_monitored = <<>>
            /\ result.validation.invalid_events = result.validation.total_events

(* ------------------------- C23 ----------------------------------------- *)
\* C23: a call on a value that is not a list of records (a dict, a string,
\* a number, None) raises instead of returning a result.
C23_StructuralFailurePropagates ==
    result # NoCall /\ raw_events.kind # "list" => ~Returned

(* ------------------------- C24 ----------------------------------------- *)
\* the batch with every offset-less timestamp written with the UTC offset
AsUtc(events) ==
    [i \in 1..Len(events) |->
        IF WellFormed(events[i]) /\ ~events[i]["timestamp"].hasOffset
        THEN [events[i] EXCEPT !["timestamp"] = IsoZ(events[i]["timestamp"].local, 0)]
        ELSE events[i]]

\* the alerts with their instants only
Instants(alerts) ==
    [i \in 1..Len(alerts) |->
        [service |-> alerts[i].service, alert_at |-> alerts[i].alert_at.utc,
         missed_count |-> alerts[i].missed_count, last_seen |-> alerts[i].last_seen.utc]]

\* C24: a timestamp without offset is accepted and counts as the same UTC
\* instant: the call gives the alerts of the batch in which every such
\* timestamp carries the UTC offset.
C24_NaiveIsUtc ==
    result # NoCall =>
        LET same == detect_alerts(Self, AsUtc(raw_events)) IN
        /\ Len(Accepted) = Len(WellFormedOnly)
        /\ result.raised = same.raised
        /\ Instants(result.alerts) = Instants(same.alerts)

ScanState(self, service, events) ==
    LET sorted_events == sorted(events) IN
    ForLoop(self, service,
            [last_heartbeat_time |-> sorted_events[1].timestamp,
             consecutive_misses |-> 0,
             expected_time |-> sorted_events[1].timestamp,
             alerts |-> <<>>],
            Tail(sorted_events))

\* the first n heartbeats of a service in time order
Earliest(events, n) == SubSeq(sorted(events), 1, n)

\* C26: once a heartbeat e is processed the miss count is 0 and the anchor
\* is e, so misses of different gaps never add up: a service whose gaps each
\* hold fewer than allowed_misses missed windows has no alert.
C26_HeartbeatClearsMisses ==
    Returned =>
        LET V == View IN
        \A s \in DOMAIN V :
            /\ \A n \in 2..Len(V[s].events) :
                    LET upto == Earliest(V[s].events, n)
                        st == ScanState(Self, s, upto)
                    IN  /\ st.consecutive_misses = 0
                        /\ st.last_heartbeat_time = upto[n].timestamp
            /\ (\A g \in V[s].gaps : Missed(g[1], g[2]) < config.allowed_misses)
                    => V[s].alerts = <<>>

\* two gaps with misses that together reach the threshold, and no alert
C26_Witness ==
    /\ Returned
    /\ result.alerts = <<>>
    /\ LET V == View IN
       \E s \in DOMAIN V :
            /\ Cardinality(V[s].gaps) >= 2
            /\ \A g \in V[s].gaps : Missed(g[1], g[2]) >= 1
            /\ SumOver(V[s].gaps, [g \in V[s].gaps |-> Missed(g[1], g[2])])
                    >= config.allowed_misses

C28_Terminates ==
    /\ (scan.pc # "idle") ~> (scan.pc = "done")
    /\ [][scan.pc = "while" /\ scan'.pc = "while" =>
            /\ interval >= 1
            /\ scan'.st.expected_time.utc = scan.st.expected_time.utc + interval
            /\ scan.st.expected_time.utc + tolerance < Head(scan.rest).timestamp.utc
            /\ scan'.rest = scan.rest]_vars

\* a call that went round the while loop several times has returned what the
\* whole call computes
C28_Witness ==
    /\ scan.pc = "done"
    /\ Returned
    /\ Len(result.alerts) >= 2
    /\ result = detect_alerts(Self, raw_events)

(* ------------------------- C29 ----------------------------------------- *)
\* the longest silence a service may show without an alert
Allowance == config.allowed_misses * interval + tolerance

\* C29: a service has an alert exactly when two consecutive heartbeats of it
\* are more than allowed_misses * interval + tolerance apart.
C29_ClosedForm ==
    Returned =>
        LET V == View IN
        \A s \in DOMAIN V :
            V[s].alerts # <<>> <=> \E g \in V[s].gaps : g[2] - g[1] > Allowance

\* with a tolerance: one gap exactly at the allowance, one a second beyond it
C29_Witness ==
    /\ Returned
    /\ tolerance > 0
    /\ LET V == View IN
       \E s \in DOMAIN V :
            /\ Len(V[s].alerts) = 1
            /\ \E g \in V[s].gaps : g[2] - g[1] = Allowance
            /\ \E g \in V[s].gaps : g[2] - g[1] = Allowance + 1

(* ------------------------- C30 ----------------------------------------- *)
\* the number of alerts of service s when one more heartbeat of s at instant
\* t is added to the batch
AlertsWithHeartbeat(s, t) ==
    LET more == detect_alerts(Self, Append(raw_events, RawEvent(Str(s), IsoZ(t, 0))))
    IN  IF more.raised # "" THEN 0 - 1
        ELSE Len(SelectSeq(more.alerts, LAMBDA alert : alert.service = s))

\* the instants from the earliest to the latest heartbeat of a service
Span(T) == {t \in 0..MaxTime : \E a, b \in T : a <= t /\ t <= b}

\* C30: one more heartbeat of a service with at least two events, at an
\* instant from its earliest to its latest, never gives the service more
\* alerts.
C30_ExtraHeartbeatNeverAddsAlerts ==
    Returned =>
        LET V == View IN
        \A s \in DOMAIN V :
            Len(V[s].events) >= 2 =>
                \A t \in Span(V[s].times) :
                    LET n == AlertsWithHeartbeat(s, t) IN
                    0 <= n /\ n <= Len(V[s].alerts)

\* a heartbeat inside a gap that takes an alert away
C30_Witness ==
    /\ Returned
    /\ LET V == View IN
       \E s \in DOMAIN V :
            /\ Len(V[s].events) >= 2
            /\ \E t \in Span(V[s].times) \ V[s].times :
                    AlertsWithHeartbeat(s, t) < Len(V[s].alerts)

====
